---- MODULE Spec2Model ----
(***************************************************************************)
(* Medical gas engineering engine (services/medicalGasEngineering.ts).     *)
(*                                                                         *)
(* Numbers.  A JavaScript number is modelled as a record                   *)
(*   [nan |-> BOOLEAN, v |-> Int].                                         *)
(* Demands (SCFM) are carried in hundredths, so that the simultaneous-use  *)
(* factors 0.75 / 0.50 / 0.25 (75 / 50 / 25 hundredths) multiply exactly.  *)
(* NaN is carried explicitly: every arithmetic operation on NaN yields     *)
(* NaN and every comparison with NaN is false, as in IEEE-754.             *)
(* Pressures (PSI) are carried in hundredths as plain integers.            *)
(***************************************************************************)
EXTENDS Integers, Sequences, FiniteSets, TLC

VARIABLES
    phase,        \* position of the caller: "input", then "done" | "sized" | "checked"
    rooms,        \* the RoomGasRequirements[] handed to the engine
    systems,      \* result of calculateSystemDemand (gas type -> system)
    pipeCall,     \* arguments of the last calculatePipeSizing call
    pipeResult,   \* the PipeCalculation it returned
    pipeInspected, \* how many standard sizes that call examined
    checkSystem,  \* the MedicalGasSystem handed to performComplianceChecks
    checks,       \* the ComplianceCheck[] it returned
    costSystem,   \* the MedicalGasSystem handed to calculateSystemCost
    costResult,   \* the number it returned
    report,       \* the report generateEngineeringReport returned
    equipped,     \* a system after calculateEquipmentRequirements
    validated,    \* the MedicalGasSystem handed to validateSystem
    validation    \* what validateSystem returned

vars == <<phase, rooms, systems, pipeCall, pipeResult, pipeInspected,
         checkSystem, checks, costSystem, costResult, report,
         equipped, validated, validation>>

-----------------------------------------------------------------------------
(* Bounds of the model *)

MaxRooms == 2
MaxOutlets == 2
MaxQuantity == 2
MaxFlowRate == 600
MaxLength == 2
PressureMargin == 10
MaxCount == 2          \* manifolds and regulators of a costed system
DemandMargin == 1      \* peak demands costed, around 50 and 200 SCFM

-----------------------------------------------------------------------------
(* JavaScript numbers *)

Num(x) == [nan |-> FALSE, v |-> x]

NaN == [nan |-> TRUE, v |-> 0]

NumAdd(a, b) == IF a.nan \/ b.nan THEN NaN ELSE Num(a.v + b.v)

\* a * (f100 / 100), a in hundredths and a multiple of 100 or f100 a multiple of 100
NumScale(a, f100) == IF a.nan THEN NaN ELSE Num((a.v * f100) \div 100)

NumLe(a, b) == ~a.nan /\ ~b.nan /\ a.v <= b.v

NumGe(a, b) == ~a.nan /\ ~b.nan /\ a.v >= b.v

NumGt(a, b) == ~a.nan /\ ~b.nan /\ a.v > b.v

-----------------------------------------------------------------------------
(* Static tables *)

GasTypes == <<"oxygen", "air", "vacuum", "co2", "n2o">>

GasTypeSet == {GasTypes[i] : i \in 1..Len(GasTypes)}

\* MedicalGasOutlet.type admits two more gases than the engine has systems for
OutletTypes == GasTypeSet \cup {"nitrogen"}

\* pressures in hundredths of PSI, simultaneousFactor in hundredths,
\* maxVelocity in the unit the table gives (ft/s, for vacuum ft/min)
NFPA99_STANDARDS ==
    [ oxygen |-> [operatingPressure |-> 5000, lowPressureAlarm |-> 4500,
                  highPressureAlarm |-> 5500, maxVelocity |-> 25,
                  simultaneousFactor |-> 75],
      air    |-> [operatingPressure |-> 5000, lowPressureAlarm |-> 4500,
                  highPressureAlarm |-> 5500, maxVelocity |-> 25,
                  simultaneousFactor |-> 75],
      vacuum |-> [operatingPressure |-> -1500, lowPressureAlarm |-> -1200,
                  highPressureAlarm |-> -1800, maxVelocity |-> 5000,
                  simultaneousFactor |-> 50],
      n2o    |-> [operatingPressure |-> 5000, lowPressureAlarm |-> 4500,
                  highPressureAlarm |-> 5500, maxVelocity |-> 25,
                  simultaneousFactor |-> 25],
      co2    |-> [operatingPressure |-> 5000, lowPressureAlarm |-> 4500,
                  highPressureAlarm |-> 5500, maxVelocity |-> 25,
                  simultaneousFactor |-> 25] ]

\* per-outlet flow rates in SCFM; co2 and n2o have no entry
FLOW_RATES ==
    [ oxygen |-> [r \in {"Operating Room", "ICU", "Emergency Room",
                         "Recovery Room", "Patient Room", "NICU"} |->
                    CASE r = "Operating Room" -> 15 [] r = "ICU" -> 8
                      [] r = "Emergency Room" -> 12 [] r = "Recovery Room" -> 6
                      [] r = "Patient Room" -> 4 [] r = "NICU" -> 10],
      air    |-> [r \in {"Operating Room", "ICU", "Emergency Room",
                         "Recovery Room", "Patient Room", "NICU"} |->
                    CASE r = "Operating Room" -> 12 [] r = "ICU" -> 6
                      [] r = "Emergency Room" -> 10 [] r = "Recovery Room" -> 5
                      [] r = "Patient Room" -> 3 [] r = "NICU" -> 8],
      vacuum |-> [r \in {"Operating Room", "ICU", "Emergency Room",
                         "Recovery Room", "Patient Room", "NICU"} |->
                    CASE r = "Operating Room" -> 8 [] r = "ICU" -> 5
                      [] r = "Emergency Room" -> 6 [] r = "Recovery Room" -> 3
                      [] r = "Patient Room" -> 2 [] r = "NICU" -> 4] ]

\* Property names every object literal inherits from Object.prototype.  A
\* bracket lookup obj[key] with one of these keys yields the inherited
\* function, not undefined.
ObjectPrototypeKeys ==
    {"constructor", "toString", "toLocaleString", "valueOf",
     "hasOwnProperty", "isPrototypeOf", "propertyIsEnumerable"}

\* obj[key] on an object literal whose own properties are the function table
PropertyLookup(table, key) ==
    IF key \in DOMAIN table THEN [kind |-> "number", v |-> table[key]]
    ELSE IF key \in ObjectPrototypeKeys THEN [kind |-> "function", v |-> 0]
    ELSE [kind |-> "undefined", v |-> 0]

\* JavaScript truthiness of a looked-up value
Truthy(x) == x.kind = "function" \/ (x.kind = "number" /\ x.v # 0)

-----------------------------------------------------------------------------
(* Demand aggregation *)

\* getBaseFlowRate: flowRates[roomType] || 5, and 5 when the gas has no table
getBaseFlowRate(gasType, roomType) ==
    IF gasType \in DOMAIN FLOW_RATES
    THEN LET x == PropertyLookup(FLOW_RATES[gasType], roomType)
         IN  IF Truthy(x) THEN x ELSE [kind |-> "number", v |-> 5]
    ELSE [kind |-> "number", v |-> 5]

\* quantity * baseFlowRate: a function operand converts to NaN
calculateRoomDemand(room, outlet) ==
    LET baseFlowRate == getBaseFlowRate(outlet.type, room.roomType)
        totalDemand == IF baseFlowRate.kind = "number"
                       THEN Num(outlet.quantity * baseFlowRate.v * 100)
                       ELSE NaN
        peakDemand == NumScale(totalDemand, outlet.simultaneousFactor)
    IN  [totalDemand |-> totalDemand, peakDemand |-> peakDemand]

\* getSystemPressureRequirements (pressures in hundredths of PSI)
getSystemPressureRequirements_Signed(gasType) ==
    IF gasType \notin DOMAIN NFPA99_STANDARDS
    THEN [operatingPressure |-> 5000,
          alarmSetPoints |-> [highPressure |-> 5500, lowPressure |-> 4500,
                              switchover |-> 4200],
          backupCapacity |-> 100, redundancyLevel |-> "dual"]
    ELSE LET standards == NFPA99_STANDARDS[gasType]
         IN  [operatingPressure |-> standards.operatingPressure,
              alarmSetPoints |->
                  [highPressure |-> standards.highPressureAlarm,
                   lowPressure |-> standards.lowPressureAlarm,
                   switchover |-> standards.lowPressureAlarm - 300],
              backupCapacity |-> 100, redundancyLevel |-> "dual"]

getSystemPressureRequirements(gasType) ==
    LET Abs(x) == IF x < 0 THEN -x ELSE x
    IN  IF gasType \notin DOMAIN NFPA99_STANDARDS
        THEN [operatingPressure |-> 5000,
              alarmSetPoints |-> [highPressure |-> 5500, lowPressure |-> 4500,
                                  switchover |-> 4200],
              backupCapacity |-> 100, redundancyLevel |-> "dual"]
        ELSE LET standards == NFPA99_STANDARDS[gasType]
             IN  [operatingPressure |-> Abs(standards.operatingPressure),
                  alarmSetPoints |->
                      [highPressure |-> Abs(standards.highPressureAlarm),
                       lowPressure |-> Abs(standards.lowPressureAlarm),
                       switchover |-> Abs(standards.lowPressureAlarm) - 300],
                  backupCapacity |-> 100, redundancyLevel |-> "dual"]

\* the system each gas type starts from
InitialSystem(gasType) ==
    [gasType |-> gasType,
     totalDemand |-> Num(0),
     peakDemand |-> Num(0),
     systemPressure |-> getSystemPressureRequirements(gasType),
     distribution |-> [mainLines |-> <<>>, branchLines |-> <<>>,
                       totalLength |-> 0, totalPressureDrop |-> 0],
     equipment |-> [primarySupply |-> "", backupSupply |-> "",
                    manifolds |-> Num(0), regulators |-> Num(0),
                    alarms |-> <<>>],
     compliance |-> <<>>,
     estimatedCost |-> Num(0)]

AccumulateOutlet_Assign(sys, room, outlet) ==
    IF outlet.type \in DOMAIN sys
    THEN LET roomDemand == calculateRoomDemand(room, outlet)
         IN  [sys EXCEPT ![outlet.type].totalDemand = roomDemand.totalDemand,
                         ![outlet.type].peakDemand = roomDemand.peakDemand]
    ELSE sys

\* body of room.outlets.forEach: systems.get(outlet.type), then +=
AccumulateOutlet(sys, room, outlet) ==
    IF outlet.type \in DOMAIN sys
    THEN LET roomDemand == calculateRoomDemand(room, outlet)
         IN  [sys EXCEPT
                ![outlet.type].totalDemand =
                    NumAdd(@, roomDemand.totalDemand),
                ![outlet.type].peakDemand =
                    NumAdd(@, roomDemand.peakDemand)]
    ELSE sys

RECURSIVE AccumulateOutlets(_, _, _)
\* room.outlets.forEach from outlet i on
AccumulateOutlets(sys, room, i) ==
    IF i > Len(room.outlets) THEN sys
    ELSE AccumulateOutlets(AccumulateOutlet(sys, room, room.outlets[i]),
                           room, i + 1)

RECURSIVE AccumulateRooms(_, _, _)
\* rooms.forEach from room i on
AccumulateRooms(sys, rs, i) ==
    IF i > Len(rs) THEN sys
    ELSE AccumulateRooms(AccumulateOutlets(sys, rs[i], 1), rs, i + 1)

FinalPeakDemand_Accumulated(system, gasType) == system.peakDemand

\* system.peakDemand = system.totalDemand * standards.simultaneousFactor
FinalPeakDemand(system, gasType) ==
    IF gasType \in DOMAIN NFPA99_STANDARDS
    THEN NumScale(system.totalDemand,
                  NFPA99_STANDARDS[gasType].simultaneousFactor)
    ELSE system.peakDemand

-----------------------------------------------------------------------------
(* Pipe sizing *)
(* Diameters are carried in quarter inches (0.5 in = 2, ..., 8 in = 32),   *)
(* flow rates in whole SCFM, areas and velocities as exact fractions       *)
(* [num, den].  Math.PI is taken as 355/113: for whole flow rates up to    *)
(* 2500 SCFM every comparison of a velocity with 25 ft/s or with 5000/60   *)
(* ft/s comes out as it does in double arithmetic, because no whole flow   *)
(* rate lies within 1e-3 SCFM of a ceiling's threshold flow.  The          *)
(* Darcy-Weisbach pressure drop (logarithms, fractional powers) is not      *)
(* carried: no property below reads it.                                    *)

PI == [num |-> 355, den |-> 113]

\* absolute roughness per material, in millionths of a foot
PIPE_ROUGHNESS ==
    [copper |-> 5, stainless_steel |-> 15, chrome_moly |-> 45]

standardSizes == <<2, 3, 4, 5, 6, 8, 10, 12, 16, 24, 32>>

RECURSIVE GCD(_, _)
GCD(a, b) == IF b = 0 THEN a ELSE GCD(b, a % b)

\* a fraction in lowest terms (keeps the cross products below within range)
Reduce(r) ==
    LET g == GCD(r.num, r.den)
    IN  [num |-> r.num \div g, den |-> r.den \div g]

\* a <= b for fractions with positive denominators
RatLe(a, b) ==
    LET x == Reduce(a)
        y == Reduce(b)
    IN  x.num * y.den <= y.num * x.den

\* Math.PI * Math.pow(diameter / 12 / 2, 2), in square feet
PipeArea(diameter) ==
    [num |-> PI.num * diameter * diameter, den |-> PI.den * 96 * 96]

PipeVelocity_PerMinute(flowRate, diameter) ==
    LET area == PipeArea(diameter)
    IN  [num |-> flowRate * area.den, den |-> area.num]

\* (flowRate / 60) / area, in ft/s
PipeVelocity(flowRate, diameter) ==
    LET area == PipeArea(diameter)
    IN  [num |-> flowRate * area.den, den |-> 60 * area.num]

\* the inner maxVelocity(gasType): 5000 / 60 for vacuum, 25 otherwise
maxVelocity(gasType) ==
    IF gasType = "vacuum" THEN [num |-> 5000, den |-> 60]
    ELSE [num |-> 25, den |-> 1]

VelocityCeiling_Vacuum == maxVelocity("vacuum")

\* the ceiling the loop compares with: maxVelocity('oxygen'), whatever gas
\* the run is for
VelocityCeiling == maxVelocity("oxygen")

\* PIPE_ROUGHNESS[material] || 0.000015
PipeRoughness(material) ==
    LET x == PropertyLookup(PIPE_ROUGHNESS, material)
    IN  IF Truthy(x) THEN x ELSE [kind |-> "number", v |-> 15]

PipeCalculation(diameter, flowRate, length, material) ==
    [diameter |-> diameter,
     length |-> length,
     material |-> material,
     velocity |-> PipeVelocity(flowRate, diameter),
     flowRate |-> flowRate,
     roughness |-> PipeRoughness(material)]

RECURSIVE SizeSearch(_, _, _, _)
\* the for loop from standardSizes[i] on, then the largest-size default;
\* yields the PipeCalculation and the number of sizes examined
SizeSearch(flowRate, length, material, i) ==
    IF i > Len(standardSizes)
    THEN [calc |-> PipeCalculation(32, flowRate, length, material),
          inspected |-> i - 1]
    ELSE IF RatLe(PipeVelocity(flowRate, standardSizes[i]), VelocityCeiling)
    THEN [calc |-> PipeCalculation(standardSizes[i], flowRate, length,
                                   material),
          inspected |-> i]
    ELSE SizeSearch(flowRate, length, material, i + 1)

calculatePipeSizing(flowRate, pressure, length, material) ==
    SizeSearch(flowRate, length, material, 1)

-----------------------------------------------------------------------------
(* System synthesis: equipment, compliance checks, cost *)

getPrimarySupplyRecommendation_Inclusive(gasType, demand) ==
    CASE gasType = "oxygen" ->
           IF NumGe(demand, Num(20000))
           THEN "Liquid oxygen bulk tank (1500+ gallon)"
           ELSE IF NumGe(demand, Num(5000))
           THEN "Liquid oxygen bulk tank (500-1500 gallon)"
           ELSE "High-pressure cylinder manifold (6-12 cylinders)"
      [] gasType = "air" ->
           IF NumGe(demand, Num(10000))
           THEN "Dual rotary screw compressors with dryers"
           ELSE IF NumGe(demand, Num(2500))
           THEN "Single rotary screw compressor with backup"
           ELSE "Reciprocating compressor with backup"
      [] gasType = "vacuum" ->
           IF NumGe(demand, Num(6000))
           THEN "Dual liquid ring vacuum pumps"
           ELSE IF NumGe(demand, Num(2000))
           THEN "Single liquid ring with backup rotary vane"
           ELSE "Rotary vane vacuum pumps (duplex)"
      [] OTHER -> "High-pressure cylinder manifold"

getPrimarySupplyRecommendation(gasType, demand) ==
    CASE gasType = "oxygen" ->
           IF NumGt(demand, Num(20000))
           THEN "Liquid oxygen bulk tank (1500+ gallon)"
           ELSE IF NumGt(demand, Num(5000))
           THEN "Liquid oxygen bulk tank (500-1500 gallon)"
           ELSE "High-pressure cylinder manifold (6-12 cylinders)"
      [] gasType = "air" ->
           IF NumGt(demand, Num(10000))
           THEN "Dual rotary screw compressors with dryers"
           ELSE IF NumGt(demand, Num(2500))
           THEN "Single rotary screw compressor with backup"
           ELSE "Reciprocating compressor with backup"
      [] gasType = "vacuum" ->
           IF NumGt(demand, Num(6000))
           THEN "Dual liquid ring vacuum pumps"
           ELSE IF NumGt(demand, Num(2000))
           THEN "Single liquid ring with backup rotary vane"
           ELSE "Rotary vane vacuum pumps (duplex)"
      [] OTHER -> "High-pressure cylinder manifold"

getBackupSupplyRecommendation_NoDefault(gasType, demand) ==
    CASE gasType = "oxygen" ->
           "High-pressure cylinder manifold (automatic switchover)"
      [] gasType = "air" -> "Secondary compressor with automatic start"
      [] gasType = "vacuum" -> "Secondary vacuum pump with automatic start"
      [] OTHER -> ""

getBackupSupplyRecommendation(gasType, demand) ==
    CASE gasType = "oxygen" ->
           "High-pressure cylinder manifold (automatic switchover)"
      [] gasType = "air" -> "Secondary compressor with automatic start"
      [] gasType = "vacuum" -> "Secondary vacuum pump with automatic start"
      [] OTHER -> "Secondary cylinder manifold"

\* Math.ceil(peakDemand / 50), peakDemand in hundredths
Regulators(peakDemand) ==
    IF peakDemand.nan THEN NaN ELSE Num(-((-peakDemand.v) \div 5000))

Manifolds_Inclusive(peakDemand) ==
    IF NumGe(peakDemand, Num(10000)) THEN Num(2) ELSE Num(1)

\* peakDemand > 100 ? 2 : 1, peakDemand in hundredths
Manifolds(peakDemand) ==
    IF NumGt(peakDemand, Num(10000)) THEN Num(2) ELSE Num(1)

calculateEquipmentRequirements(system) ==
    [system EXCEPT
       !.equipment =
          [primarySupply |->
               getPrimarySupplyRecommendation(system.gasType, system.peakDemand),
           backupSupply |->
               getBackupSupplyRecommendation(system.gasType, system.peakDemand),
           manifolds |-> Manifolds(system.peakDemand),
           regulators |-> Regulators(system.peakDemand),
           alarms |-> <<"Master alarm panel", "Local pressure switches",
                        "Automatic switchover",
                        "Remote monitoring capability">>]]

PressureStatus_Strict(operatingPressure, nominal) ==
    LET Abs(x) == IF x < 0 THEN -x ELSE x
    IN  IF Abs(operatingPressure - Abs(nominal)) < 500
        THEN "compliant" ELSE "non_compliant"

\* Math.abs(operatingPressure - Math.abs(standards.operatingPressure)) <= 5
\*   ? 'compliant' : 'non_compliant'        (hundredths of PSI)
PressureStatus(operatingPressure, nominal) ==
    LET Abs(x) == IF x < 0 THEN -x ELSE x
    IN  IF Abs(operatingPressure - Abs(nominal)) <= 500
        THEN "compliant" ELSE "non_compliant"

PressureDropStatus_NonCompliant(totalPressureDrop) ==
    IF totalPressureDrop > 500 THEN "non_compliant" ELSE "compliant"

\* status of the pressure drop check; totalPressureDrop in hundredths of PSI
PressureDropStatus(totalPressureDrop) ==
    IF totalPressureDrop > 500 THEN "warning" ELSE "compliant"

BackupStatus_Warning(backupSupply) ==
    IF backupSupply # "" THEN "compliant" ELSE "warning"

\* status of the backup check: the string's truthiness
BackupStatus(backupSupply) ==
    IF backupSupply # "" THEN "compliant" ELSE "non_compliant"

AlarmStatus_NoneIsNonCompliant(alarmCount) ==
    IF alarmCount >= 3 THEN "compliant"
    ELSE IF alarmCount = 0 THEN "non_compliant" ELSE "warning"

\* status of the alarm check, from alarms.length
AlarmStatus(alarmCount) ==
    IF alarmCount >= 3 THEN "compliant" ELSE "warning"

\* the ordered check list: pressure (only for a gas type of the standards
\* table), backup, alarm, pressure drop
performComplianceChecks(system, gasType) ==
    LET pressure ==
          IF gasType \in DOMAIN NFPA99_STANDARDS
          THEN << [standard |-> "NFPA 99-2021 Section 5.1.3.2",
                   status |-> PressureStatus(
                       system.systemPressure.operatingPressure,
                       NFPA99_STANDARDS[gasType].operatingPressure)] >>
          ELSE << >>
        backup ==
          [standard |-> "NFPA 99-2021 Section 5.1.11",
           status |-> BackupStatus(system.equipment.backupSupply)]
        alarm ==
          [standard |-> "NFPA 99-2021 Section 5.1.12",
           status |-> AlarmStatus(Len(system.equipment.alarms))]
        drop ==
          [standard |-> "NFPA 99-2021 Section 5.1.3.6",
           status |-> PressureDropStatus(
                          system.distribution.totalPressureDrop)]
    IN  pressure \o <<backup, alarm, drop>>

baseCosts ==
    [ oxygen |-> [low |-> 25000, medium |-> 75000, high |-> 200000],
      air    |-> [low |-> 35000, medium |-> 85000, high |-> 250000],
      vacuum |-> [low |-> 30000, medium |-> 80000, high |-> 220000],
      co2    |-> [low |-> 15000, medium |-> 40000, high |-> 100000],
      n2o    |-> [low |-> 20000, medium |-> 50000, high |-> 120000] ]

redundancyMultipliers_Flat == [single |-> 10, dual |-> 14, triple |-> 14]

\* tenths, so that cost * multiplier is an integer number of tenths
redundancyMultipliers == [single |-> 10, dual |-> 14, triple |-> 18]

CostTier_Inclusive(peakDemand) ==
    IF NumGe(peakDemand, Num(20000)) THEN "high"
    ELSE IF NumGe(peakDemand, Num(5000)) THEN "medium"
    ELSE "low"

\* the base cost tier of a peak demand (hundredths of SCFM); a NaN peak
\* demand fails both comparisons
CostTier(peakDemand) ==
    IF NumGt(peakDemand, Num(20000)) THEN "high"
    ELSE IF NumGt(peakDemand, Num(5000)) THEN "medium"
    ELSE "low"

\* Math.round(cost * multiplier); NaN when the regulator count is NaN
calculateSystemCost(system) ==
    LET base ==
          IF system.gasType \in DOMAIN baseCosts
          THEN baseCosts[system.gasType][CostTier(system.peakDemand)]
          ELSE 0
        piping == system.distribution.totalLength * 150
        cost == NumAdd(Num(base + piping),
                  NumAdd(Num(system.equipment.manifolds.v * 15000),
                    NumAdd(IF system.equipment.regulators.nan THEN NaN
                           ELSE Num(system.equipment.regulators.v * 2500),
                           Num(Len(system.equipment.alarms) * 5000))))
        m == redundancyMultipliers[system.systemPressure.redundancyLevel]
    IN  IF cost.nan THEN NaN ELSE Num((cost.v * m + 5) \div 10)

\* body of systems.forEach after the aggregation
FinalizeSystem(system, gasType) ==
    LET s1 == [system EXCEPT !.peakDemand = FinalPeakDemand(system, gasType)]
        s2 == calculateEquipmentRequirements(s1)
        s3 == [s2 EXCEPT !.compliance = performComplianceChecks(s2, gasType)]
    IN  [s3 EXCEPT !.estimatedCost = calculateSystemCost(s3)]

calculateSystemDemand(rs) ==
    LET init == [g \in GasTypeSet |-> InitialSystem(g)]
        acc == AccumulateRooms(init, rs, 1)
    IN  [g \in GasTypeSet |-> FinalizeSystem(acc[g], g)]

-----------------------------------------------------------------------------
(* generateEngineeringReport *)
(* The systems map is walked in its insertion order, which is GasTypes.     *)
(* summary.complianceScore is carried as the exact fraction num / den; it   *)
(* is NaN (0 / 0) when there is no check at all.                            *)

\* allCompliance: every system's checks, pushed system after system
RECURSIVE CollectCompliance(_, _)
CollectCompliance(sys, i) ==
    IF i > Len(GasTypes) THEN << >>
    ELSE sys[GasTypes[i]].compliance \o CollectCompliance(sys, i + 1)

CountStatus(cs, status) ==
    Cardinality({i \in 1..Len(cs) : cs[i].status = status})

SystemRecommendations_HalfFactor(system, gasType) ==
    (IF system.distribution.totalPressureDrop > 300
     THEN << [about |-> "pressure drop", gasType |-> gasType, count |-> 0] >>
     ELSE << >>)
    \o (IF /\ ~system.peakDemand.nan
           /\ ~system.totalDemand.nan
           /\ system.peakDemand.v * 10 > system.totalDemand.v * 5
        THEN << [about |-> "simultaneous use", gasType |-> gasType,
                 count |-> 0] >>
        ELSE << >>)
    \o (IF CountStatus(system.compliance, "non_compliant") > 0
        THEN << [about |-> "compliance issues", gasType |-> gasType,
                 count |-> CountStatus(system.compliance, "non_compliant")] >>
        ELSE << >>)

\* the recommendations one system contributes, in the order it pushes them
SystemRecommendations(system, gasType) ==
    (IF system.distribution.totalPressureDrop > 300
     THEN << [about |-> "pressure drop", gasType |-> gasType, count |-> 0] >>
     ELSE << >>)
    \o (IF /\ ~system.peakDemand.nan
           /\ ~system.totalDemand.nan
           /\ system.peakDemand.v * 10 > system.totalDemand.v * 9
        THEN << [about |-> "simultaneous use", gasType |-> gasType,
                 count |-> 0] >>
        ELSE << >>)
    \o (IF CountStatus(system.compliance, "non_compliant") > 0
        THEN << [about |-> "compliance issues", gasType |-> gasType,
                 count |-> CountStatus(system.compliance, "non_compliant")] >>
        ELSE << >>)

RECURSIVE CollectRecommendations(_, _)
CollectRecommendations(sys, i) ==
    IF i > Len(GasTypes) THEN << >>
    ELSE SystemRecommendations(sys[GasTypes[i]], GasTypes[i])
         \o CollectRecommendations(sys, i + 1)

\* the reduce over systems.values() of estimatedCost, from 0
RECURSIVE TotalCost(_, _)
TotalCost(sys, i) ==
    IF i > Len(GasTypes) THEN Num(0)
    ELSE NumAdd(sys[GasTypes[i]].estimatedCost, TotalCost(sys, i + 1))

\* the reduce over a room's outlets of quantity, whatever the outlet's type
RECURSIVE RoomOutlets(_, _)
RoomOutlets(outlets, j) ==
    IF j > Len(outlets) THEN 0
    ELSE outlets[j].quantity + RoomOutlets(outlets, j + 1)

RECURSIVE TotalOutlets(_, _)
TotalOutlets(rs, i) ==
    IF i > Len(rs) THEN 0
    ELSE RoomOutlets(rs[i].outlets, 1) + TotalOutlets(rs, i + 1)

ComplianceScore_Unscaled(allCompliance) ==
    IF Len(allCompliance) = 0
    THEN [nan |-> TRUE, num |-> 0, den |-> 1]
    ELSE [nan |-> FALSE,
          num |-> CountStatus(allCompliance, "compliant"),
          den |-> Len(allCompliance)]

\* (compliant count / allCompliance.length) * 100
ComplianceScore(allCompliance) ==
    IF Len(allCompliance) = 0
    THEN [nan |-> TRUE, num |-> 0, den |-> 1]
    ELSE [nan |-> FALSE,
          num |-> CountStatus(allCompliance, "compliant") * 100,
          den |-> Len(allCompliance)]

generateEngineeringReport(rs) ==
    LET sys == calculateSystemDemand(rs)
        allCompliance == CollectCompliance(sys, 1)
        recommendations == CollectRecommendations(sys, 1)
    IN  [summary |->
             [totalRooms |-> Len(rs),
              totalOutlets |-> TotalOutlets(rs, 1),
              totalSystemCost |-> TotalCost(sys, 1),
              gasTypesRequired |-> GasTypes,
              complianceScore |-> ComplianceScore(allCompliance),
              recommendationCount |-> Len(recommendations)],
         systems |-> sys,
         recommendations |-> recommendations,
         compliance |-> allCompliance]

-----------------------------------------------------------------------------
(* validateSystem *)
(* errors and warnings are carried as the sequence of what each is about.   *)

DropSeverity_WarningOnly(totalPressureDrop) ==
    IF totalPressureDrop > 300 THEN "warning" ELSE "none"

\* what the pressure drop adds: an error above 5 PSI, else a warning above 3
DropSeverity(totalPressureDrop) ==
    IF totalPressureDrop > 500 THEN "error"
    ELSE IF totalPressureDrop > 300 THEN "warning"
    ELSE "none"

validateSystem(system) ==
    LET Abs(x) == IF x < 0 THEN -x ELSE x
        pressure ==
          IF system.gasType \in DOMAIN NFPA99_STANDARDS
          THEN LET pressureDiff ==
                     Abs(system.systemPressure.operatingPressure
                         - Abs(NFPA99_STANDARDS[system.gasType]
                                   .operatingPressure))
               IN  IF pressureDiff > 500 THEN "error"
                   ELSE IF pressureDiff > 200 THEN "warning"
                   ELSE "none"
          ELSE "none"
        drop == DropSeverity(system.distribution.totalPressureDrop)
        errors ==
          (IF pressure = "error" THEN <<"operating pressure">> ELSE << >>)
          \o (IF system.equipment.backupSupply = ""
              THEN <<"backup supply">> ELSE << >>)
          \o (IF drop = "error" THEN <<"pressure drop">> ELSE << >>)
        warnings ==
          (IF pressure = "warning" THEN <<"operating pressure">> ELSE << >>)
          \o (IF Len(system.equipment.alarms) < 3
              THEN <<"alarm features">> ELSE << >>)
          \o (IF drop = "warning" THEN <<"pressure drop">> ELSE << >>)
    IN  [isValid |-> Len(errors) = 0, errors |-> errors,
         warnings |-> warnings]

-----------------------------------------------------------------------------
(* The caller of calculateSystemDemand: builds a room list, then calls *)

\* room types offered to the engine: two catalogued, one uncatalogued, and
\* one that is an inherited property name
RoomTypes == {"Operating Room", "ICU", "Laboratory", "constructor"}

\* outlet.simultaneousFactor values offered (hundredths)
OutletFactors == {50, 100}

RECURSIVE OutletCount(_, _)
OutletCount(rs, i) ==
    IF i > Len(rs) THEN 0 ELSE Len(rs[i].outlets) + OutletCount(rs, i + 1)

Init ==
    /\ phase = "input"
    /\ rooms = << >>
    /\ systems = << >>
    /\ pipeCall = << >>
    /\ pipeResult = << >>
    /\ pipeInspected = 0
    /\ checkSystem = << >>
    /\ checks = << >>
    /\ costSystem = << >>
    /\ costResult = << >>
    /\ report = << >>
    /\ equipped = << >>
    /\ validated = << >>
    /\ validation = << >>

AddRoom ==
    /\ phase = "input"
    /\ Len(rooms) < MaxRooms
    /\ \E rt \in RoomTypes :
         rooms' = Append(rooms, [roomType |-> rt, outlets |-> << >>])
    /\ UNCHANGED <<phase, systems, pipeCall, pipeResult, pipeInspected,
                   checkSystem, checks, costSystem, costResult, report,
                   equipped, validated, validation>>

AddOutlet ==
    /\ phase = "input"
    /\ Len(rooms) > 0
    /\ OutletCount(rooms, 1) < MaxOutlets
    /\ \E t \in OutletTypes, q \in 0..MaxQuantity, f \in OutletFactors :
         rooms' = [rooms EXCEPT ![Len(rooms)].outlets =
                      Append(@, [type |-> t, quantity |-> q,
                                 simultaneousFactor |-> f])]
    /\ UNCHANGED <<phase, systems, pipeCall, pipeResult, pipeInspected,
                   checkSystem, checks, costSystem, costResult, report,
                   equipped, validated, validation>>

CalculateSystemDemand ==
    /\ phase = "input"
    /\ systems' = calculateSystemDemand(rooms)
    /\ phase' = "done"
    /\ UNCHANGED <<rooms, pipeCall, pipeResult, pipeInspected,
                   checkSystem, checks, costSystem, costResult, report,
                   equipped, validated, validation>>

Next == AddRoom \/ AddOutlet \/ CalculateSystemDemand

Spec == Init /\ [][Next]_vars

\* the same caller asking for the whole report instead
GenerateEngineeringReport ==
    /\ phase = "input"
    /\ report' = generateEngineeringReport(rooms)
    /\ systems' = report'.systems
    /\ phase' = "reported"
    /\ UNCHANGED <<rooms, pipeCall, pipeResult, pipeInspected,
                   checkSystem, checks, costSystem, costResult,
                   equipped, validated, validation>>

ReportNext == AddRoom \/ AddOutlet \/ GenerateEngineeringReport

ReportSpec == Init /\ [][ReportNext]_vars

-----------------------------------------------------------------------------
(* Properties of the demand aggregation *)

\* the flow-rate catalogue as the specification states it: the catalogued
\* rate of (gas type, room type), 5 SCFM when there is none
CataloguedRoomTypes ==
    {"Operating Room", "ICU", "Emergency Room", "Recovery Room",
     "Patient Room", "NICU"}

CatalogueRate(gasType, roomType) ==
    IF gasType \in {"oxygen", "air", "vacuum"} /\ roomType \in CataloguedRoomTypes
    THEN FLOW_RATES[gasType][roomType]
    ELSE 5

RECURSIVE SumOutlets(_, _, _)
\* sum of quantity * rate over the outlets of gas type g in one room (SCFM)
SumOutlets(room, g, j) ==
    IF j > Len(room.outlets) THEN 0
    ELSE (IF room.outlets[j].type = g
          THEN room.outlets[j].quantity * CatalogueRate(g, room.roomType)
          ELSE 0) + SumOutlets(room, g, j + 1)

RECURSIVE SumRooms(_, _, _)
SumRooms(rs, g, i) ==
    IF i > Len(rs) THEN 0
    ELSE SumOutlets(rs[i], g, 1) + SumRooms(rs, g, i + 1)

HasOutlet(rs, g) ==
    \E i \in 1..Len(rs) : \E j \in 1..Len(rs[i].outlets) :
        rs[i].outlets[j].type = g /\ rs[i].outlets[j].quantity > 0

\* C1: for non-negative outlet quantities, every system returned by
\* calculateSystemDemand has peakDemand <= totalDemand.
C1_PeakAtMostTotal ==
    phase = "done" =>
        \A g \in GasTypeSet :
            NumLe(systems[g].peakDemand, systems[g].totalDemand)

\* C2: totalDemand of each gas type is the sum of quantity x catalogued rate
\* over its outlets, and a gas type with an outlet of positive quantity has
\* strictly positive total and peak demand.
C2_TotalIsSumOfOutletDemands ==
    phase = "done" =>
        \A g \in GasTypeSet :
            /\ systems[g].totalDemand = Num(100 * SumRooms(rooms, g, 1))
            /\ HasOutlet(rooms, g) =>
                   /\ NumGt(systems[g].totalDemand, Num(0))
                   /\ NumGt(systems[g].peakDemand, Num(0))

\* the simultaneous-use factors the claim lists (hundredths)
StatedFactor(g) ==
    CASE g = "oxygen" -> 75 [] g = "air" -> 75 [] g = "vacuum" -> 50
      [] g = "n2o" -> 25 [] g = "co2" -> 25

\* the room list with every outlet's simultaneousFactor replaced by f
WithOutletFactor(rs, f) ==
    [i \in 1..Len(rs) |->
        [rs[i] EXCEPT !.outlets =
            [j \in 1..Len(rs[i].outlets) |->
                [rs[i].outlets[j] EXCEPT !.simultaneousFactor = f]]]]

\* C3: peakDemand of each gas type is totalDemand x the table's
\* simultaneous-use factor, whatever simultaneousFactor the outlets carry.
C3_PeakIsTotalTimesFactor ==
    phase = "done" =>
        /\ \A g \in GasTypeSet :
               systems[g].peakDemand =
                   NumScale(systems[g].totalDemand, StatedFactor(g))
        /\ \A f \in OutletFactors \cup {0, 75} :
               LET other == calculateSystemDemand(WithOutletFactor(rooms, f))
               IN  \A g \in GasTypeSet :
                       other[g].peakDemand = systems[g].peakDemand

\* an oxygen outlet carrying factor 1.00 was aggregated, and the oxygen peak
\* is 0.75 of a positive total
C3_Witness ==
    /\ phase = "done"
    /\ \E i \in 1..Len(rooms) : \E j \in 1..Len(rooms[i].outlets) :
          /\ rooms[i].outlets[j].type = "oxygen"
          /\ rooms[i].outlets[j].quantity = 2
          /\ rooms[i].outlets[j].simultaneousFactor = 100
    /\ systems["oxygen"].totalDemand = Num(3000)
    /\ systems["oxygen"].peakDemand = Num(2250)

\* C4: in a room of an uncatalogued room type every outlet of a supported
\* gas type contributes quantity x 5 SCFM.
C4_UncataloguedRoomUsesFallback ==
    phase = "done" =>
        /\ \A i \in 1..Len(rooms) : \A j \in 1..Len(rooms[i].outlets) :
              (rooms[i].roomType \notin CataloguedRoomTypes
                 /\ rooms[i].outlets[j].type \in GasTypeSet) =>
              calculateRoomDemand(rooms[i], rooms[i].outlets[j]).totalDemand
                  = Num(rooms[i].outlets[j].quantity * 500)
        /\ (\A i \in 1..Len(rooms) :
                rooms[i].roomType \notin CataloguedRoomTypes) =>
              \A g \in GasTypeSet :
                  systems[g].totalDemand = Num(100 * SumRooms(rooms, g, 1))

\* C5: raising one outlet's quantity never lowers the totalDemand of any gas
\* type.
C5_TotalMonotoneInQuantity ==
    phase = "done" =>
        \A i \in 1..Len(rooms) : \A j \in 1..Len(rooms[i].outlets) :
            \A q \in (rooms[i].outlets[j].quantity + 1)..(MaxQuantity + 1) :
                LET more == calculateSystemDemand(
                                [rooms EXCEPT ![i].outlets[j].quantity = q])
                IN  \A g \in GasTypeSet :
                        NumGe(more[g].totalDemand, systems[g].totalDemand)

PermuteSeq(s, p) == [i \in 1..Len(s) |-> s[p[i]]]

\* a room with its outlets in any order
OutletOrders(room) ==
    {[room EXCEPT !.outlets = PermuteSeq(room.outlets, p)] :
        p \in Permutations(1..Len(room.outlets))}

\* every reordering of the room list and of the outlets inside each room
Reorderings(rs) ==
    UNION {
        {r2 \in [1..Len(rs) -> UNION {OutletOrders(rs[i]) : i \in 1..Len(rs)}] :
            \A i \in 1..Len(rs) : r2[i] \in OutletOrders(rs[p[i]])} :
        p \in Permutations(1..Len(rs))}

\* C6: reordering the rooms, or the outlets inside a room, changes neither
\* totalDemand nor peakDemand of any gas type.
C6_OrderIndependent ==
    phase = "done" =>
        \A r2 \in Reorderings(rooms) :
            LET other == calculateSystemDemand(r2)
            IN  \A g \in GasTypeSet :
                    /\ other[g].totalDemand = systems[g].totalDemand
                    /\ other[g].peakDemand = systems[g].peakDemand

\* two rooms of different catalogued types, each with an oxygen outlet of a
\* different quantity, were aggregated, and the list has a second ordering
C6_Witness ==
    /\ phase = "done"
    /\ Len(rooms) = 2
    /\ rooms[1].roomType = "Operating Room"
    /\ rooms[2].roomType = "ICU"
    /\ Len(rooms[1].outlets) = 1
    /\ Len(rooms[2].outlets) = 1
    /\ rooms[1].outlets[1].type = "oxygen"
    /\ rooms[2].outlets[1].type = "oxygen"
    /\ rooms[1].outlets[1].quantity = 1
    /\ rooms[2].outlets[1].quantity = 2
    /\ systems["oxygen"].totalDemand = Num(3100)
    /\ Cardinality(Reorderings(rooms)) = 2

-----------------------------------------------------------------------------
(* The caller of calculatePipeSizing *)

Materials == {"copper", "chrome_moly", "pvc"}

\* forGas is the gas system the caller sizes the run for; the function has
\* no parameter for it
CalculatePipeSizing ==
    /\ phase = "input"
    /\ \E f \in 0..MaxFlowRate, l \in 0..MaxLength, m \in Materials,
          g \in {"oxygen", "vacuum"} :
         LET p == getSystemPressureRequirements(g).operatingPressure
             r == calculatePipeSizing(f, p, l, m)
         IN  /\ pipeCall' = [flowRate |-> f, pressure |-> p, length |-> l,
                             material |-> m, forGas |-> g]
             /\ pipeResult' = r.calc
             /\ pipeInspected' = r.inspected
    /\ phase' = "sized"
    /\ UNCHANGED <<rooms, systems, checkSystem, checks, costSystem,
                   costResult, report,
                   equipped, validated, validation>>

PipeNext == CalculatePipeSizing

PipeSpec == Init /\ [][PipeNext]_vars

-----------------------------------------------------------------------------
(* Properties of the pipe sizing *)

\* the standard sizes of the claim, in quarter inches
StatedSizes == {2, 3, 4, 5, 6, 8, 10, 12, 16, 24, 32}

\* (flowRate / 60) / (pi x (diameter / 24)^2) with diameter = d4 / 4 inches
StatedVelocity(flowRate, d4) ==
    [num |-> flowRate * 113 * 96 * 96, den |-> 60 * 355 * d4 * d4]

\* C7: for a non-negative flow rate and a positive length the returned
\* diameter is a standard size and the returned velocity is
\* (flowRate / 60) / (pi x (diameter / 24)^2) for that diameter.
C7_StandardDiameterAndTrueVelocity ==
    (phase = "sized" /\ pipeCall.length > 0) =>
        /\ pipeResult.diameter \in StatedSizes
        /\ pipeResult.flowRate = pipeCall.flowRate
        /\ Reduce(pipeResult.velocity) =
               Reduce(StatedVelocity(pipeCall.flowRate, pipeResult.diameter))

\* 100 SCFM over a positive length was sized at 4 in, velocity
\* 100 x 1041408 / (60 x 355 x 256) = 19.1 ft/s
C7_Witness ==
    /\ phase = "sized"
    /\ pipeCall.length > 0
    /\ pipeCall.flowRate = 100
    /\ pipeResult.diameter = 16
    /\ Reduce(pipeResult.velocity) = Reduce([num |-> 104140800, den |-> 5452800])

Fits25(flowRate, d4) == RatLe(StatedVelocity(flowRate, d4), [num |-> 25, den |-> 1])

\* C8: the returned diameter is the smallest standard size whose velocity is
\* at most 25 ft/s; when no size qualifies it is 8 in with a velocity above
\* 25 ft/s; at most the 11 sizes are examined.
C8_SmallestDiameterWithin25 ==
    phase = "sized" =>
        /\ pipeInspected <= 11
        /\ IF \E d \in StatedSizes : Fits25(pipeCall.flowRate, d)
           THEN /\ Fits25(pipeCall.flowRate, pipeResult.diameter)
                /\ \A d \in StatedSizes :
                       d < pipeResult.diameter => ~Fits25(pipeCall.flowRate, d)
           ELSE /\ pipeResult.diameter = 32
                /\ ~RatLe(pipeResult.velocity, [num |-> 25, den |-> 1])

\* a flow no standard size carries within 25 ft/s fell through to 8 in
C8_WitnessFallback ==
    /\ phase = "sized"
    /\ pipeCall.flowRate = 524
    /\ pipeResult.diameter = 32
    /\ pipeInspected = 11
    /\ ~Fits25(524, 32)

\* the ceiling the claim gives each gas type, in ft/s
StatedCeiling(g) ==
    IF g = "vacuum" THEN [num |-> 5000, den |-> 60] ELSE [num |-> 25, den |-> 1]

FitsCeiling(flowRate, d4, g) ==
    RatLe(StatedVelocity(flowRate, d4), StatedCeiling(g))

\* C9: the ceiling is the one of the gas type being sized, 25 ft/s or for
\* vacuum 5000/60 ft/s: the returned diameter is the smallest standard size
\* whose velocity is within the ceiling of the run's gas type.
C9_CeilingFollowsGasType ==
    (phase = "sized" /\ pipeCall.length > 0) =>
        \A d \in StatedSizes :
            (/\ FitsCeiling(pipeCall.flowRate, d, pipeCall.forGas)
             /\ \A e \in StatedSizes :
                    e < d => ~FitsCeiling(pipeCall.flowRate, e, pipeCall.forGas))
            => pipeResult.diameter = d

-----------------------------------------------------------------------------
(* The caller of performComplianceChecks *)

\* operating pressures offered, as offsets from a base pressure (hundredths
\* of PSI): around -5, 0 and +5 PSI
PressureOffsets ==
    UNION {(c - PressureMargin)..(c + PressureMargin) : c \in {-500, 0, 500}}

PerformComplianceChecks ==
    /\ phase = "input"
    /\ \E g \in GasTypeSet, sign \in {1, -1}, off \in PressureOffsets,
          backup \in {"", "Secondary cylinder manifold"},
          nAlarms \in {0, 2, 3, 4}, drop \in {0, 500, 501} :
         LET base == getSystemPressureRequirements(g).operatingPressure
             s == [InitialSystem(g) EXCEPT
                     !.systemPressure.operatingPressure = sign * base + off,
                     !.equipment.backupSupply = backup,
                     !.equipment.alarms =
                         SubSeq(<<"Master alarm panel",
                                  "Local pressure switches",
                                  "Automatic switchover",
                                  "Remote monitoring capability">>,
                                1, nAlarms),
                     !.distribution.totalPressureDrop = drop]
         IN  /\ checkSystem' = s
             /\ checks' = performComplianceChecks(s, g)
    /\ phase' = "checked"
    /\ UNCHANGED <<rooms, systems, pipeCall, pipeResult, pipeInspected,
                   costSystem, costResult, report,
                   equipped, validated, validation>>

ComplianceNext == PerformComplianceChecks

ComplianceSpec == Init /\ [][ComplianceNext]_vars

-----------------------------------------------------------------------------
(* Properties of the compliance checks *)

AbsDiff(a, b) == IF a < b THEN b - a ELSE a - b

PressureCheck == checks[1]

\* C10 as stated: the pressure check is 'compliant' iff
\* |operating pressure - nominal operating pressure of the gas type| <= 5 PSI
\* and 'non_compliant' otherwise, the nominal being the standards table's.
C10_PressureCheckAgainstNominal ==
    phase = "checked" =>
        LET nominal == NFPA99_STANDARDS[checkSystem.gasType].operatingPressure
            diff == AbsDiff(checkSystem.systemPressure.operatingPressure,
                            nominal)
        IN  /\ PressureCheck.status \in {"compliant", "non_compliant"}
            /\ PressureCheck.status = "compliant" <=> diff <= 500

\* C10 amended: the pressure check is 'compliant' iff
\* |operating pressure - |nominal operating pressure|| <= 5 PSI, the
\* magnitude of the table's nominal (15 for vacuum, whose table entry is
\* -15), and 'non_compliant' otherwise, never 'warning'.
C10_PressureCheckAgainstMagnitude ==
    phase = "checked" =>
        LET nominal == NFPA99_STANDARDS[checkSystem.gasType].operatingPressure
            diff == AbsDiff(checkSystem.systemPressure.operatingPressure,
                            AbsDiff(nominal, 0))
        IN  /\ PressureCheck.standard = "NFPA 99-2021 Section 5.1.3.2"
            /\ PressureCheck.status \in {"compliant", "non_compliant"}
            /\ PressureCheck.status = "compliant" <=> diff <= 500

\* a vacuum system exactly 5 PSI above 15 was checked and found compliant
C10_WitnessBoundary ==
    /\ phase = "checked"
    /\ checkSystem.gasType = "vacuum"
    /\ checkSystem.systemPressure.operatingPressure = 2000
    /\ PressureCheck.status = "compliant"

PressureDropCheck == checks[Len(checks)]

\* C11: the total pressure drop check has exactly two outcomes: it is
\* 'compliant' when distribution.totalPressureDrop is at most 5 PSI and
\* 'warning' when it is above 5 PSI; it is never 'non_compliant'.
C11_PressureDropTwoOutcomes ==
    phase = "checked" =>
        LET drop == checkSystem.distribution.totalPressureDrop
        IN  /\ PressureDropCheck.standard = "NFPA 99-2021 Section 5.1.3.6"
            /\ drop <= 500 => PressureDropCheck.status = "compliant"
            /\ drop > 500 => PressureDropCheck.status = "warning"
            /\ PressureDropCheck.status # "non_compliant"

\* a system whose total pressure drop is 5.01 PSI was checked and the drop
\* check came out 'warning'
C11_WitnessWarning ==
    /\ phase = "checked"
    /\ checkSystem.distribution.totalPressureDrop = 501
    /\ PressureDropCheck.status = "warning"

-----------------------------------------------------------------------------
(* The caller of calculateSystemCost *)

\* peak demands offered (hundredths of SCFM): zero and around 50 and 200
PeakDemands ==
    {0} \cup UNION {(c - DemandMargin)..(c + DemandMargin) :
                        c \in {5000, 20000}}

RedundancyLevels == {"single", "dual", "triple"}

CalculateSystemCost ==
    /\ phase = "input"
    /\ \E g \in GasTypeSet, peak \in PeakDemands, len \in 0..MaxLength,
          man \in 0..MaxCount, reg \in 0..MaxCount, nAlarms \in {0, 3, 4},
          red \in RedundancyLevels :
         LET s == [InitialSystem(g) EXCEPT
                     !.peakDemand = Num(peak),
                     !.systemPressure.redundancyLevel = red,
                     !.distribution.totalLength = len,
                     !.equipment.manifolds = Num(man),
                     !.equipment.regulators = Num(reg),
                     !.equipment.alarms =
                         SubSeq(<<"Master alarm panel",
                                  "Local pressure switches",
                                  "Automatic switchover",
                                  "Remote monitoring capability">>,
                                1, nAlarms)]
         IN  /\ costSystem' = s
             /\ costResult' = calculateSystemCost(s)
    /\ phase' = "costed"
    /\ UNCHANGED <<rooms, systems, pipeCall, pipeResult, pipeInspected,
                   checkSystem, checks, report,
                   equipped, validated, validation>>

CostNext == CalculateSystemCost

CostSpec == Init /\ [][CostNext]_vars

-----------------------------------------------------------------------------
(* Properties of the system cost *)

\* the cost of the costed system had its redundancy level been r
CostAtRedundancy(r) ==
    calculateSystemCost(
        [costSystem EXCEPT !.systemPressure.redundancyLevel = r])

\* C12: for every system with non-negative length and equipment counts,
\* holding all other fields fixed, the cost at redundancy 'dual' is strictly
\* greater than at 'single', and at 'triple' strictly greater than at
\* 'dual'.
C12_CostIncreasesWithRedundancy ==
    phase = "costed" =>
        /\ costResult =
               CostAtRedundancy(costSystem.systemPressure.redundancyLevel)
        /\ ~costResult.nan
        /\ CostAtRedundancy("single").v < CostAtRedundancy("dual").v
        /\ CostAtRedundancy("dual").v < CostAtRedundancy("triple").v

\* the cheapest system there is (co2, no demand, no pipe, no equipment) was
\* costed at 'triple'
C12_WitnessCheapest ==
    /\ phase = "costed"
    /\ costSystem.gasType = "co2"
    /\ costSystem.peakDemand = Num(0)
    /\ costSystem.distribution.totalLength = 0
    /\ costSystem.equipment.manifolds = Num(0)
    /\ costSystem.equipment.regulators = Num(0)
    /\ costSystem.equipment.alarms = << >>
    /\ costSystem.systemPressure.redundancyLevel = "triple"
    /\ costResult = Num(27000)

-----------------------------------------------------------------------------
(* Properties of the engineering report *)

Score == report.summary.complianceScore

\* C14: the report for an empty room list has every demand zero, no
\* PipeCalculations, and a compliance score that is not a number (empty or
\* undefined) instead of the quotient of check counts.
C14_EmptyFacilityHasNoScore ==
    (phase = "reported" /\ rooms = << >>) =>
        /\ \A g \in GasTypeSet :
              /\ systems[g].totalDemand = Num(0)
              /\ systems[g].peakDemand = Num(0)
              /\ systems[g].distribution.mainLines = << >>
              /\ systems[g].distribution.branchLines = << >>
        /\ Score.nan

\* C15: the compliance score is (number of compliant checks / number of
\* checks in the flattened list) * 100, the flattened list is the
\* concatenation of every system's checks, and the score lies between 0 and
\* 100.
C15_ScoreIsCompliantShare ==
    phase = "reported" =>
        LET all == report.compliance
            compliant ==
                Cardinality({i \in 1..Len(all) : all[i].status = "compliant"})
        IN  /\ all = systems["oxygen"].compliance \o systems["air"].compliance
                      \o systems["vacuum"].compliance
                      \o systems["co2"].compliance
                      \o systems["n2o"].compliance
            /\ Len(all) > 0
            /\ ~Score.nan
            /\ Score.num * Len(all) = compliant * 100 * Score.den
            /\ 0 <= Score.num
            /\ Score.num <= 100 * Score.den

\* a report for two rooms with an outlet of positive quantity was made, its
\* flattened list has twenty checks and the score is 2000 / 20
C15_WitnessTwentyChecks ==
    /\ phase = "reported"
    /\ Len(rooms) = 2
    /\ \E g \in GasTypeSet : HasOutlet(rooms, g)
    /\ Len(report.compliance) = 20
    /\ Score = [nan |-> FALSE, num |-> 2000, den |-> 20]

\* C16: invalid numeric input is rejected; in particular a call of
\* calculatePipeSizing for a pipe run of length zero never returns a
\* PipeCalculation.
C16_ZeroLengthPipeRejected ==
    ~(phase = "sized" /\ pipeCall.length = 0)

HasUnsupportedOutlet(rs) ==
    \E i \in 1..Len(rs) : \E j \in 1..Len(rs[i].outlets) :
        rs[i].outlets[j].type \notin GasTypeSet

\* C17: an outlet of a gas type the engine has no system for is never
\* silently dropped: a run over rooms with such an outlet never completes
\* with a report.
C17_UnsupportedGasFailsFast ==
    ~(phase = "reported" /\ HasUnsupportedOutlet(rooms))

RECURSIVE SumLengths(_, _)
SumLengths(lines, i) ==
    IF i > Len(lines) THEN 0 ELSE lines[i].length + SumLengths(lines, i + 1)

\* C19: in a report, every gas type with non-zero demand has main-line and
\* branch-line PipeCalculations, and its distribution.totalLength is the
\* sum of their lengths (likewise the total pressure drop, which follows
\* the same lists).
C19_DemandedGasHasPipes ==
    phase = "reported" =>
        \A g \in GasTypeSet :
            systems[g].totalDemand # Num(0) =>
                LET d == systems[g].distribution
                IN  /\ Len(d.mainLines) > 0
                    /\ Len(d.branchLines) > 0
                    /\ d.totalLength = SumLengths(d.mainLines, 1)
                                       + SumLengths(d.branchLines, 1)

HasDemand(g) == systems[g].totalDemand # Num(0)

RECURSIVE ChecksOfDemanded(_)
ChecksOfDemanded(i) ==
    IF i > Len(GasTypes) THEN << >>
    ELSE (IF HasDemand(GasTypes[i]) THEN systems[GasTypes[i]].compliance
          ELSE << >>) \o ChecksOfDemanded(i + 1)

RECURSIVE CostOfDemanded(_)
CostOfDemanded(i) ==
    IF i > Len(GasTypes) THEN Num(0)
    ELSE NumAdd(IF HasDemand(GasTypes[i])
                THEN systems[GasTypes[i]].estimatedCost ELSE Num(0),
                CostOfDemanded(i + 1))

\* C20: only gas types with non-zero demand are synthesized: a gas type
\* with zero demand has no equipment recommendation, the flattened
\* compliance list holds the checks of the demanded gas types only, and the
\* total cost is the cost of the demanded gas types only.
C20_OnlyDemandedGasSynthesized ==
    phase = "reported" =>
        /\ \A g \in GasTypeSet :
              ~HasDemand(g) =>
                  /\ systems[g].equipment.primarySupply = ""
                  /\ systems[g].equipment.backupSupply = ""
        /\ report.compliance = ChecksOfDemanded(1)
        /\ report.summary.totalSystemCost = CostOfDemanded(1)

-----------------------------------------------------------------------------
(* Properties of the backup and alarm checks *)

BackupCheck == checks[Len(checks) - 2]

AlarmCheck == checks[Len(checks) - 1]

\* C21: the backup check is 'compliant' if and only if the system's
\* backupSupply string is non-empty, and 'non_compliant' otherwise; it is
\* never 'warning'.
C21_BackupCheckIffSupplySet ==
    phase = "checked" =>
        /\ BackupCheck.standard = "NFPA 99-2021 Section 5.1.11"
        /\ BackupCheck.status \in {"compliant", "non_compliant"}
        /\ BackupCheck.status = "compliant"
               <=> checkSystem.equipment.backupSupply # ""

\* a system without backup supply was checked and found 'non_compliant'
C21_WitnessNoBackup ==
    /\ phase = "checked"
    /\ checkSystem.equipment.backupSupply = ""
    /\ BackupCheck.status = "non_compliant"

\* C22: the alarm check is 'compliant' when the system lists at least three
\* alarm features and 'warning' when it lists fewer, zero included; it is
\* never 'non_compliant'.
C22_AlarmCheckTwoOutcomes ==
    phase = "checked" =>
        LET n == Len(checkSystem.equipment.alarms)
        IN  /\ AlarmCheck.standard = "NFPA 99-2021 Section 5.1.12"
            /\ n >= 3 => AlarmCheck.status = "compliant"
            /\ n < 3 => AlarmCheck.status = "warning"
            /\ AlarmCheck.status # "non_compliant"

\* a system with no alarm feature at all was checked: 'warning'
C22_WitnessNoAlarms ==
    /\ phase = "checked"
    /\ checkSystem.equipment.alarms = << >>
    /\ AlarmCheck.status = "warning"

-----------------------------------------------------------------------------
(* The caller of calculateEquipmentRequirements: a system as                *)
(* calculateSystemDemand initialises it, with a peak demand                 *)

\* peak demands offered (hundredths of SCFM): zero, around every threshold of
\* the equipment rules, and NaN
EquipmentDemands ==
    {Num(p) : p \in {0} \cup UNION {(c - DemandMargin)..(c + DemandMargin) :
                          c \in {2000, 2500, 5000, 6000, 10000, 15000,
                                 20000, 25000}}}
    \cup {NaN}

CalculateEquipmentRequirements ==
    /\ phase = "input"
    /\ \E g \in GasTypeSet, peak \in EquipmentDemands :
         equipped' = calculateEquipmentRequirements(
                         [InitialSystem(g) EXCEPT !.peakDemand = peak])
    /\ phase' = "equipped"
    /\ UNCHANGED <<rooms, systems, pipeCall, pipeResult, pipeInspected,
                   checkSystem, checks, costSystem, costResult, report,
                   validated, validation>>

EquipmentNext == CalculateEquipmentRequirements

EquipmentSpec == Init /\ [][EquipmentNext]_vars

-----------------------------------------------------------------------------
(* Properties of the equipment requirements *)

FourAlarms ==
    <<"Master alarm panel", "Local pressure switches",
      "Automatic switchover", "Remote monitoring capability">>

\* C23: manifolds is 2 when peakDemand > 100 and 1 otherwise (1 at exactly
\* 100), regulators is ceil(peakDemand / 50), the least count whose 50 SCFM
\* shares cover the peak demand (NaN for a NaN peak demand); neither goes
\* down when the peak demand goes up, and the alarm list is always the same
\* four items.
C23_ManifoldsRegulatorsAlarms ==
    phase = "equipped" =>
        LET peak == equipped.peakDemand
            e == equipped.equipment
        IN  /\ e.manifolds = Num(IF ~peak.nan /\ peak.v > 10000 THEN 2 ELSE 1)
            /\ peak.nan => e.regulators.nan
            /\ ~peak.nan =>
                  /\ ~e.regulators.nan
                  /\ e.regulators.v * 5000 >= peak.v
                  /\ (e.regulators.v - 1) * 5000 < peak.v
            /\ e.alarms = FourAlarms
            /\ ~peak.nan =>
                  \A higher \in EquipmentDemands :
                      (~higher.nan /\ higher.v >= peak.v) =>
                          LET more == calculateEquipmentRequirements(
                                          [equipped EXCEPT
                                             !.peakDemand = higher]).equipment
                          IN  /\ more.manifolds.v >= e.manifolds.v
                              /\ more.regulators.v >= e.regulators.v

\* a system at exactly 100 SCFM peak demand was equipped: one manifold, two
\* regulators
C23_WitnessExactlyHundred ==
    /\ phase = "equipped"
    /\ equipped.peakDemand = Num(10000)
    /\ equipped.equipment.manifolds = Num(1)
    /\ equipped.equipment.regulators = Num(2)

\* the tiers of C24: thresholds (hundredths of SCFM) and the recommendation
\* above the upper one, between the two, and at or below the lower one
StatedPrimaryTiers ==
    [ oxygen |-> [upper |-> 20000, lower |-> 5000,
                  large |-> "Liquid oxygen bulk tank (1500+ gallon)",
                  mid |-> "Liquid oxygen bulk tank (500-1500 gallon)",
                  small |-> "High-pressure cylinder manifold (6-12 cylinders)"],
      air    |-> [upper |-> 10000, lower |-> 2500,
                  large |-> "Dual rotary screw compressors with dryers",
                  mid |-> "Single rotary screw compressor with backup",
                  small |-> "Reciprocating compressor with backup"],
      vacuum |-> [upper |-> 6000, lower |-> 2000,
                  large |-> "Dual liquid ring vacuum pumps",
                  mid |-> "Single liquid ring with backup rotary vane",
                  small |-> "Rotary vane vacuum pumps (duplex)"] ]

\* C24: the primary supply is tiered by gas type and peak demand: oxygen
\* above 200 the large bulk tank, above 50 up to 200 the mid bulk tank, up
\* to 50 the cylinder manifold; air with thresholds 100 and 25; vacuum with
\* 60 and 20; co2 and n2o always the cylinder manifold.  The backup supply
\* is the same for every demand and never empty.
C24_SupplyRecommendations ==
    phase = "equipped" =>
        LET g == equipped.gasType
            peak == equipped.peakDemand
            e == equipped.equipment
        IN  /\ (g \in DOMAIN StatedPrimaryTiers /\ ~peak.nan) =>
                  LET t == StatedPrimaryTiers[g]
                  IN  /\ peak.v > t.upper => e.primarySupply = t.large
                      /\ (t.lower < peak.v /\ peak.v <= t.upper) =>
                             e.primarySupply = t.mid
                      /\ peak.v <= t.lower => e.primarySupply = t.small
            /\ g \in {"co2", "n2o"} =>
                  e.primarySupply = "High-pressure cylinder manifold"
            /\ e.backupSupply # ""
            /\ \A other \in EquipmentDemands :
                  getBackupSupplyRecommendation(g, other) = e.backupSupply

\* a vacuum system at exactly 60 SCFM peak demand was equipped: still the
\* middle tier
C24_WitnessVacuumSixty ==
    /\ phase = "equipped"
    /\ equipped.gasType = "vacuum"
    /\ equipped.peakDemand = Num(6000)
    /\ equipped.equipment.primarySupply =
           "Single liquid ring with backup rotary vane"
    /\ equipped.equipment.backupSupply =
           "Secondary vacuum pump with automatic start"

Magnitude(x) == IF x < 0 THEN -x ELSE x

\* C25: for every gas type the system's pressure requirements are the
\* magnitudes of the table's nominal operating and alarm pressures,
\* switchover = low-pressure alarm - 3, backup capacity 100 and redundancy
\* 'dual'; hence switchover < lowPressure < operatingPressure <
\* highPressure, for vacuum too.
C25_PressureRequirementsOrdered ==
    phase = "equipped" =>
        LET sp == equipped.systemPressure
            a == sp.alarmSetPoints
            standards == NFPA99_STANDARDS[equipped.gasType]
        IN  /\ sp.operatingPressure = Magnitude(standards.operatingPressure)
            /\ a.highPressure = Magnitude(standards.highPressureAlarm)
            /\ a.lowPressure = Magnitude(standards.lowPressureAlarm)
            /\ a.switchover = a.lowPressure - 300
            /\ sp.backupCapacity = 100
            /\ sp.redundancyLevel = "dual"
            /\ a.switchover < a.lowPressure
            /\ a.lowPressure < sp.operatingPressure
            /\ sp.operatingPressure < a.highPressure

\* a vacuum system was initialised: 9 < 12 < 15 < 18
C25_WitnessVacuum ==
    /\ phase = "equipped"
    /\ equipped.gasType = "vacuum"
    /\ equipped.systemPressure.operatingPressure = 1500
    /\ equipped.systemPressure.alarmSetPoints =
           [highPressure |-> 1800, lowPressure |-> 1200, switchover |-> 900]

-----------------------------------------------------------------------------
(* Properties of the report's recommendations and of whole reports *)

\* the lines C26 states for one system, as <<kind, gas type>> pairs
StatedLines(system, gasType) ==
    (IF system.distribution.totalPressureDrop > 300
     THEN << <<"pressure drop", gasType>> >> ELSE << >>)
    \o (IF /\ ~system.peakDemand.nan
           /\ ~system.totalDemand.nan
           /\ 10 * system.peakDemand.v > 9 * system.totalDemand.v
        THEN << <<"simultaneous use", gasType>> >> ELSE << >>)
    \o (IF \E k \in 1..Len(system.compliance) :
              system.compliance[k].status = "non_compliant"
        THEN << <<"compliance issues", gasType>> >> ELSE << >>)

\* C26: the recommendations list holds, gas type after gas type in the
\* systems' order, a 'larger pipe sizes' line exactly when the system's
\* totalPressureDrop > 3, a 'high simultaneous use factor' line exactly
\* when peakDemand > 0.9 x totalDemand, and one 'address compliance issues'
\* line exactly when a check is 'non_compliant'; nothing else, and
\* summary.recommendationCount is its length.
C26_RecommendationsByHeuristics ==
    phase = "reported" =>
        /\ [k \in 1..Len(report.recommendations) |->
               <<report.recommendations[k].about,
                 report.recommendations[k].gasType>>]
           = StatedLines(systems["oxygen"], "oxygen")
             \o StatedLines(systems["air"], "air")
             \o StatedLines(systems["vacuum"], "vacuum")
             \o StatedLines(systems["co2"], "co2")
             \o StatedLines(systems["n2o"], "n2o")
        /\ report.summary.recommendationCount = Len(report.recommendations)

\* a report was made for an oxygen system whose peak demand (22.5) is
\* positive and below 0.9 x its total demand (30): no line, count 0
C26_WitnessBelowNineTenths ==
    /\ phase = "reported"
    /\ systems["oxygen"].totalDemand = Num(3000)
    /\ systems["oxygen"].peakDemand = Num(2250)
    /\ report.recommendations = << >>
    /\ report.summary.recommendationCount = 0

\* C27: for every gas type and every room type string, inherited property
\* names included, the base flow rate of the demand calculation is a
\* number, the catalogued rate or the fallback 5, and so no totalDemand is
\* NaN.
C27_BaseFlowRateIsNumber ==
    phase = "done" =>
        /\ \A i \in 1..Len(rooms) : \A j \in 1..Len(rooms[i].outlets) :
              LET rate == getBaseFlowRate(rooms[i].outlets[j].type,
                                          rooms[i].roomType)
              IN  rooms[i].outlets[j].type \in GasTypeSet =>
                      /\ rate.kind = "number"
                      /\ rate.v = CatalogueRate(rooms[i].outlets[j].type,
                                                rooms[i].roomType)
        /\ \A g \in GasTypeSet : ~systems[g].totalDemand.nan

CheckStandards ==
    <<"NFPA 99-2021 Section 5.1.3.2", "NFPA 99-2021 Section 5.1.11",
      "NFPA 99-2021 Section 5.1.12", "NFPA 99-2021 Section 5.1.3.6">>

\* C28: every report has exactly 20 checks, four for each of oxygen, air,
\* vacuum, co2, n2o in that order, each group in the order pressure,
\* backup, alarm, pressure drop, every one 'compliant'; the compliance
\* score is 100, the recommendations list is empty, and every system has no
\* main or branch lines, total length 0 and total pressure drop 0.
C28_TwentyCompliantChecks ==
    phase = "reported" =>
        /\ Len(report.compliance) = 20
        /\ \A i \in 1..5 :
              /\ SubSeq(report.compliance, 4 * i - 3, 4 * i)
                     = report.systems[GasTypes[i]].compliance
              /\ \A k \in 1..4 :
                    /\ report.compliance[4 * (i - 1) + k].standard
                           = CheckStandards[k]
                    /\ report.compliance[4 * (i - 1) + k].status = "compliant"
        /\ ~Score.nan
        /\ Score.num = 100 * Score.den
        /\ report.recommendations = << >>
        /\ \A g \in GasTypeSet :
              report.systems[g].distribution =
                  [mainLines |-> << >>, branchLines |-> << >>,
                   totalLength |-> 0, totalPressureDrop |-> 0]

\* a report was made for rooms whose oxygen demand came out NaN and that
\* hold an outlet of a gas the engine has no system for: still twenty
\* checks and a score of 100
C28_WitnessNaNDemand ==
    /\ phase = "reported"
    /\ report.systems["oxygen"].totalDemand.nan
    /\ HasUnsupportedOutlet(rooms)
    /\ Len(report.compliance) = 20
    /\ Score = [nan |-> FALSE, num |-> 2000, den |-> 20]

\* C29: raising one outlet's quantity never lowers any gas type's
\* estimatedCost nor the report's totalSystemCost.
C29_CostMonotoneInQuantity ==
    phase = "reported" =>
        \A i \in 1..Len(rooms) : \A j \in 1..Len(rooms[i].outlets) :
            \A q \in (rooms[i].outlets[j].quantity + 1)..(MaxQuantity + 1) :
                LET more == generateEngineeringReport(
                                [rooms EXCEPT ![i].outlets[j].quantity = q])
                IN  /\ \A g \in GasTypeSet :
                          NumGe(more.systems[g].estimatedCost,
                                report.systems[g].estimatedCost)
                    /\ NumGe(more.summary.totalSystemCost,
                             report.summary.totalSystemCost)

-----------------------------------------------------------------------------
(* The caller of validateSystem *)

\* operating pressures offered, as offsets from a base pressure (hundredths
\* of PSI): around 0, 2 and 5 PSI either way
ValidateOffsets ==
    UNION {(c - PressureMargin)..(c + PressureMargin) :
              c \in {-500, -200, 0, 200, 500}}

ValidateSystem ==
    /\ phase = "input"
    /\ \E g \in GasTypeSet, sign \in {1, -1}, off \in ValidateOffsets,
          backup \in {"", "Secondary cylinder manifold"},
          nAlarms \in {2, 3}, drop \in {0, 300, 301, 500, 501} :
         LET base == getSystemPressureRequirements(g).operatingPressure
             s == [InitialSystem(g) EXCEPT
                     !.systemPressure.operatingPressure = sign * base + off,
                     !.equipment.backupSupply = backup,
                     !.equipment.alarms =
                         SubSeq(<<"Master alarm panel",
                                  "Local pressure switches",
                                  "Automatic switchover">>, 1, nAlarms),
                     !.distribution.totalPressureDrop = drop]
         IN  /\ validated' = s
             /\ validation' = validateSystem(s)
    /\ phase' = "validated"
    /\ UNCHANGED <<rooms, systems, pipeCall, pipeResult, pipeInspected,
                   checkSystem, checks, costSystem, costResult, report,
                   equipped>>

ValidateNext == ValidateSystem

ValidateSpec == Init /\ [][ValidateNext]_vars

-----------------------------------------------------------------------------
(* Properties of validateSystem *)

One(b) == IF b THEN 1 ELSE 0

\* C30: validateSystem returns isValid = false exactly when
\* |operatingPressure - |nominal|| > 5, or backupSupply is empty, or
\* totalPressureDrop > 5, each adding one error; a pressure difference in
\* (2, 5], fewer than three alarm features, or a pressure drop in (3, 5]
\* add one warning each and no error.  Every system with a 'non_compliant'
\* check of performComplianceChecks is invalid.
C30_ValidateSystemVerdict ==
    phase = "validated" =>
        LET nominal == NFPA99_STANDARDS[validated.gasType].operatingPressure
            diff == AbsDiff(validated.systemPressure.operatingPressure,
                            AbsDiff(nominal, 0))
            drop == validated.distribution.totalPressureDrop
            noBackup == validated.equipment.backupSupply = ""
            itsChecks == performComplianceChecks(validated, validated.gasType)
        IN  /\ validation.isValid <=> ~(diff > 500 \/ noBackup \/ drop > 500)
            /\ Len(validation.errors)
                   = One(diff > 500) + One(noBackup) + One(drop > 500)
            /\ Len(validation.warnings)
                   = One(200 < diff /\ diff <= 500)
                     + One(Len(validated.equipment.alarms) < 3)
                     + One(300 < drop /\ drop <= 500)
            /\ (\E k \in 1..Len(itsChecks) :
                    itsChecks[k].status = "non_compliant")
                  => ~validation.isValid

\* a system exactly 5 PSI off, with two alarm features and a pressure drop
\* of exactly 5 PSI was validated: three warnings, no error, valid
C30_WitnessAllWarnings ==
    /\ phase = "validated"
    /\ validated.gasType = "oxygen"
    /\ validated.systemPressure.operatingPressure = 5500
    /\ validated.equipment.backupSupply # ""
    /\ Len(validated.equipment.alarms) = 2
    /\ validated.distribution.totalPressureDrop = 500
    /\ validation.isValid
    /\ Len(validation.warnings) = 3

====
